---- MODULE Spec2Model ----
(***************************************************************************)
(* Google-Workspace-MCP-Server: the OAuth credential lifecycle of the      *)
(* Flask service (src/app.py) and of the MCP server (src/mcp_server.py,    *)
(* src/get_credentials.py).                                                *)
(*                                                                         *)
(* Time is a discrete clock `now`.  Redis keys carry the instant at which  *)
(* their TTL elapses; a credential carries its expiry instant.             *)
(*                                                                         *)
(* The specifications share the definitions below:                         *)
(*   Spec      the Flask service exactly as written (transform_* and       *)
(*             validate_* are the `pass` stubs of the source);             *)
(*   SpecImpl  the Flask service with the two calendar stubs completed as  *)
(*             their docstrings declare, so that the rest of               *)
(*             create_calendar_event can run;                              *)
(*   SpecRace  SpecImpl's create_calendar_event on two workers;            *)
(*   SpecMCP   the MCP server and the get_credentials.py script;           *)
(*   SpecStore the credential store on its own.                            *)
(***************************************************************************)
EXTENDS Integers, Sequences, FiniteSets, TLC

VARIABLES
    now,          \* wall clock
    redisCreds,   \* Redis keys "user_creds:<sha256(user_id)>"
    redisSess,    \* Redis keys "session:<token>"
    req,          \* create_calendar_event requests in flight
    impl,         \* are the calendar stubs implemented?
    cb,           \* the /callback request between its two Redis writes
    tokenFile,    \* token.json of the MCP deployment
    lifespan,     \* lifespan context of the MCP server
    putCred,      \* history: last credential successfully stored per user
    loggedOut,    \* history: tokens logged out and not issued again
    last          \* the last response produced, with what the handler did

vars == <<now, redisCreds, redisSess, req, impl, cb, tokenFile, lifespan,
          putCred, loggedOut, last>>

appVars == <<redisCreds, redisSess, req, putCred, loggedOut>>
mcpVars == <<tokenFile, lifespan>>

----------------------------------------------------------------------------
(* Bounds and constants *)

MaxTime == 2
TokenLifetime == 1
SESSION_DURATION == 2

\* Python's None: `None` where the value is otherwise a string, `Null` where
\* it is otherwise an object (a Credentials, a datetime, a Redis value)
None == "None"
Null == [null |-> TRUE]
Users == {"u1", "u2"}
SessionTokens == {"t1", "t2"}

ENCRYPTION_KEY == "key"

SCOPES == <<"calendar", "drive", "gmail.readonly">>
TOKEN_URI == "https://oauth2.googleapis.com/token"
CLIENT_ID == "client_id"
CLIENT_SECRET == "client_secret"

MCP_SCOPES == <<"gmail.readonly", "gmail.send", "calendar.events", "drive">>

----------------------------------------------------------------------------
(* google.oauth2.credentials.Credentials, as the source uses it *)

Credentials(token, refresh_token, token_uri, client_id, client_secret, scopes) ==
    [token |-> token, refresh_token |-> refresh_token, token_uri |-> token_uri,
     client_id |-> client_id, client_secret |-> client_secret,
     scopes |-> scopes, expiry |-> Null]

\* credentials.expired
Expired(c, t) == c.expiry # Null /\ t >= c.expiry.utc

\* credentials.valid
Valid(c, t) == c.token # None /\ ~Expired(c, t)

\* the access token the token endpoint mints at instant t for caller `by`
Mint(t, by) == "at-" \o ToString(t) \o "-" \o by

\* credentials.refresh(Request()) when the token endpoint accepts: the object
\* is mutated in place, new access token and new expiry
Refreshed(c, t, by) ==
    [c EXCEPT !.token = Mint(t, by), !.expiry = [utc |-> t + TokenLifetime]]

\* flow.credentials after a successful flow.fetch_token
FlowCredentials(t, rt) ==
    [Credentials(Mint(t, "callback"), rt, TOKEN_URI, CLIENT_ID, CLIENT_SECRET, SCOPES)
        EXCEPT !.expiry = [utc |-> t + TokenLifetime]]

----------------------------------------------------------------------------
(* SecurityManager *)

encrypt_data(data) == [fernet |-> ENCRYPTION_KEY, data |-> data]

CanDecrypt(encrypted_data) == encrypted_data.fernet = ENCRYPTION_KEY

decrypt_data(encrypted_data) == encrypted_data.data

\* hash_user_id without the hash
hash_user_id_raw(user_id) == user_id

hash_user_id(user_id) == "sha256:" \o user_id

----------------------------------------------------------------------------
(* datetime.isoformat / datetime.fromisoformat, json.dumps / json.loads *)

isoformat(dt) == [iso |-> dt.utc]

fromisoformat(s) == [utc |-> s.iso]

json_dumps(d) == [json |-> d]

json_loads(s) == s.json

----------------------------------------------------------------------------
(* Redis: get / setex / delete on keys with a TTL.  A key whose TTL has     *)
(* elapsed is gone (Tick removes it).                                       *)

CredKeys == {hash_user_id(u) : u \in Users} \cup Users

Live(entry) == entry # Null /\ now < entry.expireAt

\* redis_client.get(key) answers a value exactly when redis_has; else None
redis_has(store, key) == key \in DOMAIN store /\ Live(store[key])

redis_get(store, key) == store[key].value

redis_setex(store, key, ttl, value) ==
    [store EXCEPT ![key] = [value |-> value, expireAt |-> now + ttl]]

redis_delete(store, key) ==
    IF key \in DOMAIN store THEN [store EXCEPT ![key] = Null] ELSE store

Expire(store, t) ==
    [k \in DOMAIN store |->
        IF store[k] # Null /\ store[k].expireAt <= t THEN Null ELSE store[k]]

----------------------------------------------------------------------------
(* RedisManager.  `up` says whether the Redis call of the operation goes    *)
(* through; when it does not, redis-py raises and the except clause runs.   *)

creds_data(credentials) ==
    [token |-> credentials.token,
     refresh_token |-> credentials.refresh_token,
     token_uri |-> credentials.token_uri,
     client_id |-> credentials.client_id,
     client_secret |-> credentials.client_secret,
     scopes |-> credentials.scopes,
     expiry |-> IF credentials.expiry # Null
                THEN isoformat(credentials.expiry) ELSE Null]

\* credentials_from without `credentials.expiry = ...`
credentials_from_without_expiry(data) ==
    Credentials(data.token, data.refresh_token, data.token_uri,
                data.client_id, data.client_secret, data.scopes)

\* the Credentials object get_user_credentials rebuilds from the JSON
credentials_from(data) ==
    LET credentials == Credentials(data.token, data.refresh_token, data.token_uri,
                                   data.client_id, data.client_secret, data.scopes)
    IN  IF data.expiry # Null
        THEN [credentials EXCEPT !.expiry = fromisoformat(data.expiry)]
        ELSE credentials

\* store_user_credentials merging into the record it finds: a credential
\* without refresh token keeps the refresh token stored before
store_user_credentials_merging(store, user_id, credentials, up) ==
    LET key == hash_user_id(user_id)
        merged ==
            IF redis_has(store, key) /\ CanDecrypt(redis_get(store, key))
                  /\ credentials.refresh_token = None
            THEN [credentials EXCEPT !.refresh_token =
                     json_loads(decrypt_data(redis_get(store, key))).refresh_token]
            ELSE credentials
    IN  [ok |-> up,
         store |-> IF up
                   THEN redis_setex(store, key, SESSION_DURATION,
                                    encrypt_data(json_dumps(creds_data(merged))))
                   ELSE store]

\* store_user_credentials: .ok is the value returned, .store the keys after it
store_user_credentials(store, user_id, credentials, up) ==
    IF up
    THEN [ok |-> TRUE,
          store |-> redis_setex(store, hash_user_id(user_id), SESSION_DURATION,
                                encrypt_data(json_dumps(creds_data(credentials))))]
    ELSE [ok |-> FALSE, store |-> store]

\* get_user_credentials answering a credential of its own where it finds none
get_user_credentials_or_default(store, user_id, up) ==
    IF up /\ redis_has(store, hash_user_id(user_id))
          /\ CanDecrypt(redis_get(store, hash_user_id(user_id)))
    THEN credentials_from(json_loads(decrypt_data(redis_get(store, hash_user_id(user_id)))))
    ELSE Credentials("at-default", None, TOKEN_URI, CLIENT_ID, CLIENT_SECRET, SCOPES)

\* get_user_credentials: a Credentials, or Null from `return None` (no record)
\* and from the except clause (Redis error, decryption or parsing error) alike
get_user_credentials(store, user_id, up) ==
    IF ~up THEN Null
    ELSE IF ~redis_has(store, hash_user_id(user_id)) THEN Null
    ELSE LET encrypted_creds == redis_get(store, hash_user_id(user_id))
         IN  IF ~CanDecrypt(encrypted_creds) THEN Null
             ELSE credentials_from(json_loads(decrypt_data(encrypted_creds)))

\* store_session ending the sessions the user already has
store_session_single(store, session_token, user_id, up) ==
    [ok |-> up,
     store |-> IF up
               THEN redis_setex(
                        [t \in DOMAIN store |->
                            IF redis_has(store, t) /\ redis_get(store, t) = user_id
                            THEN Null ELSE store[t]],
                        session_token, SESSION_DURATION, user_id)
               ELSE store]

store_session(store, session_token, user_id, up) ==
    IF up
    THEN [ok |-> TRUE,
          store |-> redis_setex(store, session_token, SESSION_DURATION, user_id)]
    ELSE [ok |-> FALSE, store |-> store]

get_session_user(store, session_token, up) ==
    IF ~up THEN None
    ELSE IF ~redis_has(store, session_token) THEN None
    ELSE redis_get(store, session_token)

\* invalidate_session without the delete
invalidate_session_keeps(store, session_token, up) ==
    [ok |-> up, store |-> store]

invalidate_session(store, session_token, up) ==
    IF up
    THEN [ok |-> TRUE, store |-> redis_delete(store, session_token)]
    ELSE [ok |-> FALSE, store |-> store]

----------------------------------------------------------------------------
(* The Authorization header: a string, as the sequence of its pieces.      *)
(* <<>> is the missing (or empty) header; "Bearer" and "Basic" are scheme  *)
(* words, " " one space, anything else a run of non-space characters.      *)

Headers ==
    {<<>>, <<"Bearer", " ">>}
    \cup {<<"Bearer", " ", t>> : t \in SessionTokens}
    \cup {<<"Basic", " ", "t1">>, <<"Bearer", " ", " ", "t1">>,
          <<"Bearer", " ", "t1", " ", "x">>}

\* str.startswith('Bearer ')
startswith_Bearer(h) == Len(h) >= 2 /\ h[1] = "Bearer" /\ h[2] = " "

\* str.split(' '): the fields between single spaces
RECURSIVE split(_)
split(h) ==
    IF h = <<>> THEN <<"">>
    ELSE LET rest == split(Tail(h))
         IN  IF Head(h) = " " THEN <<"">> \o rest
             ELSE <<Head(h) \o rest[1]>> \o Tail(rest)

\* require_auth: .status is 401 with .error when the decorator answers itself,
\* 0 when it calls the handler with request.user_id = .user
require_auth(store, h, up) ==
    IF h = <<>> \/ ~startswith_Bearer(h)
    THEN [status |-> 401, error |-> "Authentication required", user |-> None]
    ELSE LET token == split(h)[2]
             user_id == get_session_user(store, token, up)
         IN  IF user_id = None
             THEN [status |-> 401, error |-> "Invalid or expired session",
                   user |-> None]
             ELSE [status |-> 0, error |-> "", user |-> user_id]

----------------------------------------------------------------------------
(* googleapiclient: build(..., credentials=c) followed by .execute().  The  *)
(* authorized transport calls credentials.before_request, which refreshes   *)
(* a credential that is not valid (RefreshError without a refresh token or  *)
(* when the token endpoint refuses), then sends the request.                *)

execute(c, t, refreshOk, apiOk, by) ==
    IF Valid(c, t)
    THEN [credentials |-> c, refreshCalls |-> 0, refreshFailed |-> FALSE,
          sent |-> TRUE, raised |-> IF apiOk THEN "" ELSE "HttpError"]
    ELSE IF c.refresh_token = None
    THEN [credentials |-> c, refreshCalls |-> 0, refreshFailed |-> FALSE,
          sent |-> FALSE, raised |-> "RefreshError"]
    ELSE IF refreshOk
    THEN [credentials |-> Refreshed(c, t, by), refreshCalls |-> 1,
          refreshFailed |-> FALSE,
          sent |-> TRUE, raised |-> IF apiOk THEN "" ELSE "HttpError"]
    ELSE [credentials |-> c, refreshCalls |-> 1, refreshFailed |-> TRUE,
          sent |-> FALSE, raised |-> "RefreshError"]

\* what the call can come to, over the answers of Google's endpoints
Executions(c, t, by) ==
    {execute(c, t, refreshOk, apiOk, by) : refreshOk \in BOOLEAN, apiOk \in BOOLEAN}

----------------------------------------------------------------------------
(* What a response records: the answer, and what the handler did on the way *)

\* the stored credential of a user as a request finds it
RecordState(store, user_id, t) ==
    IF ~redis_has(store, hash_user_id(user_id)) THEN "absent"
    ELSE IF ~CanDecrypt(redis_get(store, hash_user_id(user_id))) THEN "undecryptable"
    ELSE LET c == get_user_credentials(store, user_id, TRUE)
         IN  IF ~Expired(c, t) THEN "valid"
             ELSE IF c.refresh_token # None THEN "expired_refreshable"
             ELSE "expired_dead"

\* a credential as it is handed to build(...)
BuiltWith(c, t) == IF Expired(c, t) THEN "expired" ELSE "valid"

NoResponse ==
    [op |-> "none",            \* the operation that answered
     malformed |-> FALSE,      \* its Authorization header was no "Bearer <token>"
     presented |-> None,       \* the token require_auth took from the header
     status |-> 0,             \* HTTP status
     error |-> "",             \* the 'error' of the body ("" if none)
     user |-> None,            \* request.user_id the handler ran with
     owner |-> None,           \* user the presented token was stored for
     loggedOutToken |-> FALSE, \* the presented token had been logged out
     token |-> None,           \* session_token of the body
     found |-> "none",         \* RecordState when the credential was read
     got |-> Null,             \* what get_user_credentials returned
     expect |-> Null,          \* what had last been stored for the user
     built |-> "no",           \* BuiltWith of the credential given to build
     refreshCalls |-> 0,       \* refresh requests to the token endpoint
     refreshFailed |-> FALSE,  \* one of them was refused
     refreshed |-> Null,       \* the credential after a successful refresh
     sent |-> FALSE,           \* a Google API request went out
     storedAfter |-> Null,     \* the user's readable credential on return
     ttlReset |-> FALSE,       \* ... stored with a full TTL on return
     storeRefused |-> FALSE,   \* Redis refused a write of the handler
     storedBefore |-> Null,    \* the user's readable credential before a put
     peer |-> Null,            \* the response of a request for the same user
                               \* that was in flight with this one and ended first
     exchangeCalls |-> 0,      \* authorization-code exchanges at the token endpoint
     upstream |-> "",          \* the error code the token endpoint answered
     logged |-> "",            \* the exception text written to the application log
     fetched |-> Null,         \* the event events().get returned
     update |-> Null,          \* update_details.model_dump(exclude_unset=True)
     body |-> Null,            \* the body given to events().update
     newer |-> Null]           \* the credential a callback stored for the user
                               \* after the request had read its own, if that
                               \* record's TTL has not elapsed

\* the piece of the header a well-formed "Bearer <token>" carries
WellFormed(h) == Len(h) = 3 /\ h[1] = "Bearer" /\ h[2] = " " /\ h[3] \in SessionTokens

Owner(store, h) ==
    IF WellFormed(h) /\ redis_has(store, h[3]) THEN redis_get(store, h[3]) ELSE None

Presented(h) == IF startswith_Bearer(h) THEN split(h)[2] ELSE None

\* the response of an operation behind require_auth, as the guard leaves it
Guarded(op, h, auth) ==
    [NoResponse EXCEPT !.op = op, !.malformed = ~WellFormed(h),
                       !.presented = Presented(h), !.status = auth.status,
                       !.error = auth.error, !.user = auth.user,
                       !.owner = Owner(redisSess, h),
                       !.loggedOutToken = (Presented(h) \in loggedOut)]

\* the guard's responses over the headers a client can send and over Redis
\* answering or not
Guards(op) ==
    {Guarded(op, h, require_auth(redisSess, h, up)) : h \in Headers, up \in BOOLEAN}

StoredAfter(store, user_id) == get_user_credentials(store, user_id, TRUE)

TtlReset(store, user_id) ==
    /\ redis_has(store, hash_user_id(user_id))
    /\ store[hash_user_id(user_id)].expireAt = now + SESSION_DURATION

----------------------------------------------------------------------------
(* Flask routes *)

Idle == [pc |-> "idle", credentials |-> Null, resp |-> NoResponse]

\* secrets.token_urlsafe(32): a token no live session is stored under
generate_session_token == {t \in SessionTokens : ~redis_has(redisSess, t)}

\* the requests in flight once a callback has stored `credentials` for
\* user_id: those of that user hold a credential read before it
Overtaken(user_id, credentials) ==
    [q \in DOMAIN req |->
        IF req[q].pc # "idle" /\ req[q].resp.user = user_id
        THEN [req[q] EXCEPT !.resp.newer =
                 [credentials |-> credentials, expireAt |-> now + SESSION_DURATION]]
        ELSE req[q]]

\* GET /callback, once the state parameter matched and flow.fetch_token and
\* the userinfo call returned, up to store_user_credentials: the first of
\* its two Redis writes
callback(user_id, rt, upC) ==
    LET resp == [NoResponse EXCEPT !.op = "callback"]
        credentials == FlowCredentials(now, rt)
        put == store_user_credentials(redisCreds, user_id, credentials, upC)
    IN  IF put.ok
        THEN /\ redisCreds' = put.store
             /\ putCred' = [putCred EXCEPT ![user_id] =
                   [credentials |-> credentials,
                    expireAt |-> now + SESSION_DURATION]]
             /\ cb' = [user_id |-> user_id]
             /\ req' = Overtaken(user_id, credentials)
             /\ UNCHANGED <<redisSess, loggedOut, last>>
        ELSE /\ last' = [resp EXCEPT !.status = 500, !.storeRefused = TRUE,
                             !.exchangeCalls = 1,
                             !.error = "Failed to store credentials"]
             /\ UNCHANGED <<redisCreds, redisSess, putCred, loggedOut, cb, req>>

\* GET /callback from generate_session_token on: store_session, the second
\* Redis write, and the answer
callback_session(user_id, session_token, upS) ==
    LET sess == store_session(redisSess, session_token, user_id, upS)
    IN  /\ redisSess' = sess.store
        /\ loggedOut' = IF sess.ok THEN loggedOut \ {session_token}
                        ELSE loggedOut
        /\ last' = [NoResponse EXCEPT
                       !.op = "callback", !.status = 200, !.user = user_id,
                       !.token = session_token,
                       !.exchangeCalls = 1,
                       !.storeRefused = ~sess.ok,
                       !.storedAfter = StoredAfter(redisCreds, user_id),
                       !.ttlReset = TtlReset(redisCreds, user_id)]
        /\ cb' = Null

CallbackSession ==
    /\ cb # Null
    /\ \E session_token \in generate_session_token, upS \in BOOLEAN :
          callback_session(cb.user_id, session_token, upS)
    /\ UNCHANGED <<now, redisCreds, req, impl, tokenFile, lifespan, putCred>>

\* the error codes of the token endpoint (RFC 6749, 5.2)
TokenEndpointErrors == {"invalid_grant", "invalid_client"}

\* GET /callback answering 400 before the exchange: the state parameter does
\* not match
callback_invalid_state ==
    /\ last' = [NoResponse EXCEPT !.op = "callback", !.status = 400,
                                  !.error = "Invalid state parameter"]
    /\ UNCHANGED <<redisCreds, redisSess, putCred, loggedOut, cb, req>>

\* GET /callback answering 400 from its except clause: flow.fetch_token
\* raised on the token endpoint's error `upstream`, or ("" for upstream) the
\* userinfo call raised after the exchange
callback_rejected(upstream) ==
    /\ last' = [NoResponse EXCEPT
            !.op = "callback", !.status = 400, !.error = "Authentication failed",
            !.exchangeCalls = 1, !.upstream = upstream,
            !.logged = IF upstream = "" THEN "HttpError" ELSE upstream]
    /\ UNCHANGED <<redisCreds, redisSess, putCred, loggedOut, cb, req>>

\* one /callback at a time; secrets.token_urlsafe never runs out of tokens
Callback ==
    /\ cb = Null
    /\ \/ callback_invalid_state
       \/ \E upstream \in TokenEndpointErrors \cup {""} : callback_rejected(upstream)
       \/ /\ generate_session_token # {}
          /\ \E user_id \in Users, rt \in {None, "rt"} : callback(user_id, rt, TRUE)
       \* Redis refuses the credentials: the same answer for every user
       \/ callback("u1", "rt", FALSE)
    /\ UNCHANGED <<now, impl, tokenFile, lifespan>>

\* POST /auth/logout, behind require_auth
logout(resp, upD) ==
    IF resp.status = 401
    THEN /\ last' = resp
         /\ UNCHANGED <<redisSess, loggedOut>>
    ELSE LET session_token == resp.presented
             del == invalidate_session(redisSess, session_token, upD)
         IN  /\ redisSess' = del.store
             /\ loggedOut' = IF del.ok THEN loggedOut \cup {session_token}
                             ELSE loggedOut
             /\ last' = [resp EXCEPT
                    !.status = IF del.ok THEN 200 ELSE 500,
                    !.error = IF del.ok THEN "" ELSE "Failed to logout",
                    !.storeRefused = ~del.ok,
                    !.storedAfter = StoredAfter(redisCreds, resp.user)]

Logout ==
    \E resp \in Guards("logout") :
        /\ \E upD \in IF resp.status = 401 THEN {TRUE} ELSE BOOLEAN : logout(resp, upD)
        /\ UNCHANGED <<now, redisCreds, req, impl, cb, tokenFile, lifespan, putCred>>

\* the credential read of a handler, added to its response
WithRead(resp, up) ==
    [resp EXCEPT !.found = RecordState(redisCreds, resp.user, now),
                 !.got = get_user_credentials(redisCreds, resp.user, up),
                 !.expect = IF up /\ putCred[resp.user] # Null
                            THEN putCred[resp.user].credentials ELSE Null]

Reads(resp) == {WithRead(resp, up) : up \in BOOLEAN}

\* the call of a handler to a Google API, added to its response
WithCall(resp, credentials, call) ==
    [resp EXCEPT !.built = BuiltWith(credentials, now),
                 !.refreshCalls = @ + call.refreshCalls,
                 !.refreshFailed = call.refreshFailed,
                 !.refreshed = IF call.credentials # credentials
                               THEN call.credentials ELSE @,
                 !.sent = call.sent]

\* the user's record as the handler returns
WithStore(resp, store) ==
    [resp EXCEPT !.storedAfter = StoredAfter(store, resp.user),
                 !.ttlReset = TtlReset(store, resp.user),
                 !.newer = IF @ # Null /\ now < @.expireAt
                           THEN @.credentials ELSE Null]

\* GET /api/user/info, behind require_auth
user_info(resp) ==
    IF resp.status = 401 THEN last' = resp
    ELSE \E read \in Reads(resp) :
           LET credentials == read.got
           IN  IF credentials = Null
               THEN last' = [read EXCEPT !.status = 401,
                                 !.error = "User credentials not found"]
               ELSE \E call \in Executions(credentials, now, "user_info") :
                      LET done == WithStore(WithCall(read, credentials, call), redisCreds)
                      IN  IF call.raised = ""
                          THEN last' = [done EXCEPT !.status = 200]
                          ELSE last' = [done EXCEPT !.status = 500,
                                            !.error = "Failed to get user info"]

UserInfo ==
    \E resp \in Guards("user_info") :
        /\ user_info(resp)
        /\ UNCHANGED <<now, redisCreds, redisSess, req, impl, cb, tokenFile, lifespan,
                       putCred, loggedOut>>

\* transform_calendar_data and validate_calendar_input as the source has
\* them: the body is `pass`, the call returns None
transform_calendar_data(input_data) == Null

validate_calendar_input(input_data) == Null

\* the same two, completed as their docstrings declare: a dict ready for
\* calendar creation, and a tuple (is_valid, error_message)
transform_calendar_data_impl(input_data) == [event |-> input_data]

validate_calendar_input_impl(input_data) ==
    [is_valid |-> input_data.event = "valid",
     error_msg |-> IF input_data.event = "valid" THEN "" ELSE "invalid event"]

Bodies == {"empty", "valid", "invalid"}

\* GoogleWorkspaceManager.__init__ and _refresh_credentials_if_needed
refresh_credentials_if_needed(c, t, refreshOk, by) ==
    IF Expired(c, t) /\ c.refresh_token # None
    THEN IF refreshOk
         THEN [credentials |-> Refreshed(c, t, by), refreshCalls |-> 1,
               refreshFailed |-> FALSE, sent |-> FALSE, raised |-> ""]
         ELSE [credentials |-> c, refreshCalls |-> 1,
               refreshFailed |-> TRUE, sent |-> FALSE, raised |-> "RefreshError"]
    ELSE [credentials |-> c, refreshCalls |-> 0,
          refreshFailed |-> FALSE, sent |-> FALSE, raised |-> ""]

Managers(c, t, by) ==
    {refresh_credentials_if_needed(c, t, refreshOk, by) : refreshOk \in BOOLEAN}

\* the response of a request whose handler is running: require_auth has
\* passed, what it saw of the header is no longer at hand
Handling(resp) ==
    [resp EXCEPT !.malformed = FALSE, !.presented = None, !.owner = None,
                 !.loggedOutToken = FALSE, !.got = Null, !.expect = Null]

\* a request takes the first free worker
FirstIdle(r) == req[r].pc = "idle" /\ \A q \in DOMAIN req : req[q].pc = "idle" => r <= q

\* the requests in flight once request r has answered `done`: the requests
\* of the same user still running have run alongside it
Ended(r, done) ==
    [q \in DOMAIN req |->
        IF q = r THEN Idle
        ELSE IF req[q].pc # "idle" /\ req[q].resp.user = done.user
        THEN [req[q] EXCEPT !.resp.peer = [done EXCEPT !.peer = Null]]
        ELSE req[q]]

\* POST /api/calendar/create behind require_auth, up to the construction of
\* the manager
create_calendar_event_begin(r, resp, body) ==
    IF resp.status = 401
    THEN last' = resp /\ UNCHANGED req
    ELSE IF body = "empty"
    THEN /\ last' = [resp EXCEPT !.status = 400, !.error = "No data provided"]
         /\ UNCHANGED req
    ELSE \E read \in Reads(resp) :
           LET credentials == read.got
           IN  IF credentials = Null
               THEN /\ last' = [read EXCEPT !.status = 401,
                                    !.error = "User credentials not found"]
                    /\ UNCHANGED req
               ELSE LET transformed_data ==
                            IF impl THEN transform_calendar_data_impl(body)
                            ELSE transform_calendar_data(body)
                        checked ==
                            IF impl THEN validate_calendar_input_impl(transformed_data)
                            ELSE validate_calendar_input(transformed_data)
                    IN  IF checked = Null
                        \* is_valid, error_msg = None raises TypeError
                        THEN /\ last' = [read EXCEPT !.status = 500,
                                             !.error = "Internal server error"]
                             /\ UNCHANGED req
                        ELSE IF ~checked.is_valid
                        THEN /\ last' = [read EXCEPT !.status = 400,
                                             !.error = "Invalid input"]
                             /\ UNCHANGED req
                        ELSE /\ req' = [req EXCEPT ![r] =
                                    [pc |-> "manager", credentials |-> credentials,
                                     resp |-> Handling(read)]]
                             /\ UNCHANGED last

CreateBegin ==
    \E r \in DOMAIN req, resp \in Guards("create_calendar_event") :
        /\ FirstIdle(r)
        /\ \E body \in IF resp.status = 401 THEN {"empty"} ELSE Bodies :
              create_calendar_event_begin(r, resp, body)
        /\ UNCHANGED <<now, redisCreds, redisSess, impl, cb, tokenFile, lifespan,
                       putCred, loggedOut>>

\* workspace_manager = GoogleWorkspaceManager(credentials)
create_calendar_event_manager(r, made) ==
    LET resp == WithCall(req[r].resp, req[r].credentials, made)
    IN  IF made.raised # ""
        THEN LET done == [WithStore(resp, redisCreds) EXCEPT
                             !.built = "no",
                             !.status = 500, !.error = "Internal server error"]
             IN  /\ last' = done
                 /\ req' = Ended(r, done)
        ELSE /\ req' = [req EXCEPT ![r] =
                    [pc |-> "insert", credentials |-> made.credentials, resp |-> resp]]
             /\ UNCHANGED last

CreateManager ==
    \E r \in DOMAIN req :
        /\ req[r].pc = "manager"
        /\ \E made \in Managers(req[r].credentials, now, ToString(r)) :
              create_calendar_event_manager(r, made)
        /\ UNCHANGED <<now, redisCreds, redisSess, impl, cb, tokenFile, lifespan,
                       putCred, loggedOut>>

\* result = workspace_manager.create_calendar_event(transformed_data), then
\* the write-back of workspace_manager.credentials and the response
create_calendar_event_insert(r, call, upW) ==
    LET user_id == req[r].resp.user
        resp == WithCall(req[r].resp, req[r].credentials, call)
    IN  IF call.raised = ""
        THEN LET put == store_user_credentials(redisCreds, user_id,
                                               call.credentials, upW)
                 done == [WithStore(resp, put.store) EXCEPT
                              !.status = 201, !.storeRefused = ~put.ok]
             IN  /\ redisCreds' = put.store
                 /\ putCred' = IF put.ok
                               THEN [putCred EXCEPT ![user_id] =
                                       [credentials |-> call.credentials,
                                        expireAt |-> now + SESSION_DURATION]]
                               ELSE putCred
                 /\ last' = done
                 /\ req' = Ended(r, done)
        ELSE LET done == [WithStore(resp, redisCreds) EXCEPT
                              !.status = 400, !.error = call.raised]
             IN  /\ last' = done
                 /\ req' = Ended(r, done)
                 /\ UNCHANGED <<redisCreds, putCred>>

CreateInsert ==
    \E r \in DOMAIN req :
        /\ req[r].pc = "insert"
        /\ \E call \in Executions(req[r].credentials, now, ToString(r)) :
              \E upW \in IF call.raised = "" THEN BOOLEAN ELSE {TRUE} :
                 create_calendar_event_insert(r, call, upW)
        /\ UNCHANGED <<now, redisSess, impl, cb, tokenFile, lifespan, loggedOut>>

\* the clock advances; Redis drops the keys whose TTL has elapsed
Tick ==
    /\ now < MaxTime
    /\ now' = now + 1
    /\ redisCreds' = Expire(redisCreds, now + 1)
    /\ redisSess' = Expire(redisSess, now + 1)
    /\ putCred' = Expire(putCred, now + 1)
    /\ UNCHANGED <<req, impl, cb, tokenFile, lifespan, loggedOut, last>>

(* The MCP server (mcp_server.py) and get_credentials.py.  token.json holds *)
(* what Credentials.to_json wrote: Null while the file does not exist.      *)

\* the credential a request or a start finds: in the lifespan context, or in
\* token.json
CredentialState(c, t) ==
    IF c = Null THEN "absent"
    ELSE IF ~Expired(c, t) THEN "valid"
    ELSE IF c.refresh_token # None THEN "expired_refreshable"
    ELSE "expired_dead"

\* InstalledAppFlow.run_local_server(port=0, prompt='consent')
InstalledAppCredentials(t, rt) ==
    [Credentials(Mint(t, "flow"), rt, TOKEN_URI, CLIENT_ID, CLIENT_SECRET, MCP_SCOPES)
        EXCEPT !.expiry = [utc |-> t + TokenLifetime]]

\* get_credentials.py main(): .raised is the exception that ends the script
get_credentials_main(creds, t, refreshOk, flowOk, rt) ==
    IF creds = Null \/ ~Valid(creds, t)
    THEN IF creds # Null /\ Expired(creds, t) /\ creds.refresh_token # None
         THEN IF refreshOk
              THEN [file |-> Refreshed(creds, t, "script"), refreshCalls |-> 1,
                    raised |-> ""]
              ELSE [file |-> creds, refreshCalls |-> 1, raised |-> "RefreshError"]
         ELSE IF flowOk
              THEN [file |-> InstalledAppCredentials(t, rt), refreshCalls |-> 0,
                    raised |-> ""]
              ELSE [file |-> creds, refreshCalls |-> 0, raised |-> "FlowError"]
    ELSE [file |-> creds, refreshCalls |-> 0, raised |-> ""]

GetCredentials ==
    \E run \in {get_credentials_main(tokenFile, now, refreshOk, flowOk, rt) :
                   refreshOk \in BOOLEAN, flowOk \in BOOLEAN, rt \in {None, "rt"}} :
        /\ tokenFile' = run.file
        /\ last' = [NoResponse EXCEPT
                !.op = "get_credentials",
                !.error = run.raised,
                !.found = CredentialState(tokenFile, now),
                !.refreshCalls = run.refreshCalls,
                !.refreshFailed = (run.raised = "RefreshError"),
                !.refreshed = IF run.refreshCalls = 1 /\ run.raised = ""
                              THEN run.file ELSE Null,
                !.storedAfter = run.file]
        /\ UNCHANGED <<now, lifespan, impl, cb, appVars>>

\* credential_manager up to its yield: .creds is the "creds" of the context
credential_manager(file, t, refreshOk) ==
    IF file = Null THEN [creds |-> Null, file |-> file, refreshCalls |-> 0,
                         refreshFailed |-> FALSE]
    ELSE IF Expired(file, t) /\ file.refresh_token # None
    THEN IF refreshOk
         THEN [creds |-> Refreshed(file, t, "mcp"), file |-> Refreshed(file, t, "mcp"),
               refreshCalls |-> 1, refreshFailed |-> FALSE]
         ELSE [creds |-> Null, file |-> file, refreshCalls |-> 1,
               refreshFailed |-> TRUE]
    ELSE [creds |-> file, file |-> file, refreshCalls |-> 0, refreshFailed |-> FALSE]

McpStart ==
    /\ lifespan = Null
    /\ \E started \in {credential_manager(tokenFile, now, refreshOk) :
                          refreshOk \in BOOLEAN} :
        /\ lifespan' = [creds |-> started.creds]
        /\ tokenFile' = started.file
        /\ last' = [NoResponse EXCEPT
                !.op = "credential_manager",
                !.found = CredentialState(tokenFile, now),
                !.refreshCalls = started.refreshCalls,
                !.refreshFailed = started.refreshFailed,
                !.refreshed = IF started.refreshCalls = 1 /\ ~started.refreshFailed
                              THEN started.creds ELSE Null,
                !.storedAfter = started.file]
    /\ UNCHANGED <<now, impl, cb, appVars>>

CREDS_UNAVAILABLE == "Google API credentials are not available or invalid"

\* get_creds_from_context without `not creds.valid`
get_creds_from_context_present(creds, t) == creds

\* get_creds_from_context: the credentials returned, Null when it raises
get_creds_from_context(creds, t) ==
    IF creds = Null \/ ~Valid(creds, t) THEN Null ELSE creds

\* a tool of the server: get_creds_from_context, then the Google API call
tool(ctx) ==
    LET creds == get_creds_from_context(ctx.creds, now)
        resp == [NoResponse EXCEPT !.op = "tool",
                                   !.found = CredentialState(ctx.creds, now)]
    IN  IF creds = Null
        THEN last' = [resp EXCEPT !.error = CREDS_UNAVAILABLE]
        ELSE \E call \in Executions(creds, now, "tool") :
               last' = [WithCall(resp, creds, call) EXCEPT
                           !.error = IF call.raised = "" THEN "" ELSE "API error"]

McpTool ==
    /\ lifespan # Null
    /\ tool(lifespan)
    /\ UNCHANGED <<now, tokenFile, lifespan, impl, cb, appVars>>

\* d[k] = v on a Python dict
SetItem(d, k, v) == [x \in DOMAIN d \cup {k} |-> IF x = k THEN v ELSE d[x]]

\* the user's primary calendar: a timed event with description and location,
\* and an all-day event that has neither description nor dateTime
Calendar ==
    [e1 |-> [id |-> "e1", summary |-> "standup", description |-> "daily",
             location |-> "room 1",
             start |-> [dateTime |-> "09:00", timeZone |-> "UTC"],
             end |-> [dateTime |-> "09:15", timeZone |-> "UTC"]],
     e2 |-> [id |-> "e2", summary |-> "holiday",
             start |-> [date |-> "07-05"],
             end |-> [date |-> "07-06"]]]

EventUpdateFields == {"summary", "start_time", "end_time", "description"}

\* EventUpdateDetails.model_dump(exclude_unset=True): the fields the caller
\* set, each to a string; or the description set to None
EventUpdateDetails ==
    UNION {[set -> {"new"}] : set \in SUBSET EventUpdateFields}
    \cup {[description |-> None]}

\* an update body made of the provided fields alone
update_body_only(event, update_body) ==
    LET a == [id |-> event.id, start |-> event.start, end |-> event.end]
        b == IF "start_time" \in DOMAIN update_body
             THEN [a EXCEPT !.start = [dateTime |-> update_body.start_time]] ELSE a
        c == IF "end_time" \in DOMAIN update_body
             THEN [b EXCEPT !.end = [dateTime |-> update_body.end_time]] ELSE b
        d == IF "summary" \in DOMAIN update_body
             THEN SetItem(c, "summary", update_body.summary) ELSE c
    IN  IF "description" \in DOMAIN update_body
        THEN SetItem(d, "description", update_body.description) ELSE d

\* update_calendar_event: the fetched event after the four `if ... in
\* update_body` assignments
update_body_merged(event, update_body) ==
    LET a == IF "start_time" \in DOMAIN update_body
             THEN [event EXCEPT !.start =
                      SetItem(event.start, "dateTime", update_body.start_time)]
             ELSE event
        b == IF "end_time" \in DOMAIN update_body
             THEN [a EXCEPT !.end =
                      SetItem(a.end, "dateTime", update_body.end_time)]
             ELSE a
        c == IF "summary" \in DOMAIN update_body
             THEN SetItem(b, "summary", update_body.summary) ELSE b
    IN  IF "description" \in DOMAIN update_body
        THEN SetItem(c, "description", update_body.description) ELSE c

\* the tool update_calendar_event(event_id, update_details, ctx): getOk and
\* updateOk say whether events().get and events().update return
update_calendar_event(ctx, event_id, update_details, getOk, updateOk) ==
    LET creds == get_creds_from_context(ctx.creds, now)
        resp == [NoResponse EXCEPT !.op = "update_calendar_event",
                                   !.found = CredentialState(ctx.creds, now),
                                   !.update = update_details]
    IN  IF creds = Null
        THEN [resp EXCEPT !.error = CREDS_UNAVAILABLE]
        ELSE LET got == WithCall(resp, creds, execute(creds, now, TRUE, getOk, "tool"))
             IN  IF ~getOk
                 THEN [got EXCEPT !.error = "API error"]
                 ELSE LET event == update_body_merged(Calendar[event_id], update_details)
                      IN  [got EXCEPT !.fetched = Calendar[event_id],
                                      !.body = event,
                                      !.error = IF updateOk THEN "" ELSE "API error"]

McpUpdateEvent ==
    /\ lifespan # Null
    /\ \E event_id \in DOMAIN Calendar, update_details \in EventUpdateDetails,
          getOk \in BOOLEAN, updateOk \in BOOLEAN :
          last' = update_calendar_event(lifespan, event_id, update_details,
                                        getOk, updateOk)
    /\ UNCHANGED <<now, tokenFile, lifespan, impl, cb, appVars>>

\* the server shuts down
McpStop ==
    /\ lifespan # Null
    /\ lifespan' = Null
    /\ UNCHANGED <<now, tokenFile, impl, cb, appVars, last>>

(* The credential store on its own: store_user_credentials and             *)
(* get_user_credentials applied to arbitrary users and credentials.         *)

SampleCredentials ==
    {[Credentials(token, rt, TOKEN_URI, CLIENT_ID, CLIENT_SECRET, SCOPES)
         EXCEPT !.expiry = expiry] :
        token \in {"at-a", "at-b"}, rt \in {None, "rt"},
        expiry \in {Null, [utc |-> 1]}}

StorePut ==
    \E user_id \in Users, credentials \in SampleCredentials, up \in BOOLEAN :
        LET put == store_user_credentials(redisCreds, user_id, credentials, up)
        IN  /\ redisCreds' = put.store
            /\ putCred' = IF put.ok
                          THEN [putCred EXCEPT ![user_id] =
                                  [credentials |-> credentials,
                                   expireAt |-> now + SESSION_DURATION]]
                          ELSE putCred
            /\ last' = [WithStore([NoResponse EXCEPT !.op = "put", !.user = user_id],
                                  put.store)
                           EXCEPT !.error = IF put.ok THEN "" ELSE "False",
                                  !.storedBefore = StoredAfter(redisCreds, user_id)]
            /\ UNCHANGED <<now, redisSess, req, impl, cb, tokenFile, lifespan, loggedOut>>

StoreGet ==
    \E user_id \in Users :
        \E read \in Reads([NoResponse EXCEPT !.op = "get", !.user = user_id]) :
            /\ last' = read
            /\ UNCHANGED <<now, redisCreds, redisSess, req, impl, cb, tokenFile, lifespan,
                           putCred, loggedOut>>

----------------------------------------------------------------------------
(* Specifications *)

\* Redis outlives the service.  The service starts on the keys its previous
\* deployment left: u1 signed in under session t1, and u1's credentials were
\* encrypted under that deployment's ENCRYPTION_KEY, which has since changed.
StaleRecord ==
    [value |-> [fernet |-> "oldkey",
                data |-> json_dumps(creds_data(FlowCredentials(0, "rt")))],
     expireAt |-> SESSION_DURATION]

StaleSession == [value |-> "u1", expireAt |-> SESSION_DURATION]

InitApp(implemented, workers) ==
    /\ now = 0
    /\ redisCreds = [k \in CredKeys |->
          IF k = hash_user_id("u1") THEN StaleRecord ELSE Null]
    /\ redisSess = [t \in SessionTokens |-> IF t = "t1" THEN StaleSession ELSE Null]
    /\ req = [r \in workers |-> Idle]
    /\ impl = implemented
    /\ cb = Null
    /\ tokenFile = Null
    /\ lifespan = Null
    /\ putCred = [u \in Users |-> Null]
    /\ loggedOut = {}
    /\ last = NoResponse

Init == InitApp(FALSE, {1})

InitImpl == InitApp(TRUE, {1})

Next == Callback \/ CallbackSession \/ Logout \/ UserInfo \/ CreateBegin \/ Tick

NextImpl ==
    Callback \/ CallbackSession \/ CreateBegin \/ CreateManager \/ CreateInsert \/ Tick

Spec == Init /\ [][Next]_vars

\* two workers (gunicorn runs several), u1 signed in at instant 0 with a
\* refresh token: the state callback("u1", "rt") leaves behind
InitRace ==
    /\ now = 0
    /\ redisCreds = [k \in CredKeys |->
          IF k = hash_user_id("u1")
          THEN [value |-> encrypt_data(json_dumps(creds_data(FlowCredentials(0, "rt")))),
                expireAt |-> SESSION_DURATION]
          ELSE Null]
    /\ redisSess = [t \in SessionTokens |->
          IF t = "t1" THEN [value |-> "u1", expireAt |-> SESSION_DURATION] ELSE Null]
    /\ req = [r \in {1, 2} |-> Idle]
    /\ impl = TRUE
    /\ cb = Null
    /\ tokenFile = Null
    /\ lifespan = Null
    /\ putCred = [u \in Users |->
          IF u = "u1" THEN [credentials |-> FlowCredentials(0, "rt"),
                            expireAt |-> SESSION_DURATION]
          ELSE Null]
    /\ loggedOut = {}
    /\ last = NoResponse

NextRace == CreateBegin \/ CreateManager \/ CreateInsert \/ Tick

SpecRace == InitRace /\ [][NextRace]_vars

SpecImpl == InitImpl /\ [][NextImpl]_vars

\* nothing stored yet, no server running
InitEmpty ==
    /\ now = 0
    /\ redisCreds = [k \in CredKeys |-> Null]
    /\ redisSess = [t \in SessionTokens |-> Null]
    /\ req = [r \in {} |-> Idle]
    /\ impl = FALSE
    /\ cb = Null
    /\ tokenFile = Null
    /\ lifespan = Null
    /\ putCred = [u \in Users |-> Null]
    /\ loggedOut = {}
    /\ last = NoResponse

NextMCP == GetCredentials \/ McpStart \/ McpTool \/ McpUpdateEvent \/ McpStop \/ Tick

SpecMCP == InitEmpty /\ [][NextMCP]_vars

NextStore == StorePut \/ StoreGet \/ Tick

SpecStore == InitEmpty /\ [][NextStore]_vars

----------------------------------------------------------------------------
(* Claims *)

Requests == {"logout", "user_info", "create_calendar_event", "tool"}

Protected == {"logout", "user_info", "create_calendar_event"}

\* the response tells the client to authorize again: 401 from the service,
\* the credentials-unavailable error from the MCP server
AuthenticationRequired(resp) ==
    resp.status = 401 \/ resp.error = CREDS_UNAVAILABLE

\* C1: no request hands the Google API client a stored credential whose
\* expiry has passed; every path checks the expiry first and refreshes or
\* fails.
C1_NoExpiredCredentialHandedOver == last.built # "expired"

\* C2: a get after a successful put, within the TTL and with no put for the
\* user in between, returns the credential that was put, field by field.
C2_GetReturnsWhatWasPut == last.expect # Null => last.got = last.expect

C2_Witness ==
    /\ last.op = "get"
    /\ last.expect # Null
    /\ last.got = last.expect
    /\ last.got.expiry # Null
    /\ now > 0

\* C3: a stored credential that has expired and has a refresh token leads
\* to exactly one refresh call, and the request proceeds with the updated
\* credential.
C3_ExpiredRefreshableIsRefreshedOnce ==
    last.found = "expired_refreshable" =>
        /\ last.refreshCalls = 1
        /\ (last.op \in Requests /\ ~last.refreshFailed) =>
               (last.sent /\ last.refreshed # Null)

\* C4: a stored credential that has expired and has no refresh token makes
\* the request fail as authentication required, with no refresh call, and the
\* credential reaches no Google API call.
C4_DeadCredentialIsRefused ==
    last.found = "expired_dead" =>
        /\ AuthenticationRequired(last)
        /\ last.refreshCalls = 0
        /\ last.built = "no"

C7_UndecryptableIsNotAbsent ==
    last.found = "undecryptable" => last.error # "User credentials not found"

\* C8: require_auth answers 401 without calling the handler when the header
\* is missing, malformed, of another scheme, or its token has no live
\* session; otherwise the handler runs as the user the token was stored for.
C8_GuardRejectsAndResolves ==
    last.op \in Protected =>
        /\ (last.malformed \/ last.owner = None) =>
               (last.status = 401 /\ last.user = None)
        /\ last.user # None => last.user = last.owner

\* C9: a logout leaves no stored credential for the user.
C9_LogoutDeletesCredential ==
    (last.op = "logout" /\ last.status = 200) => last.storedAfter = Null

\* C10: once a logout with token t has succeeded, t has no session record and
\* every request presenting t is answered 401 without running the handler,
\* until a session is created under t again.
C10_LoggedOutTokenIsRejected ==
    /\ \A t \in loggedOut : ~redis_has(redisSess, t)
    /\ last.loggedOutToken => (last.status = 401 /\ last.user = None)

C10_Witness ==
    /\ last.op = "user_info"
    /\ last.loggedOutToken
    /\ last.presented \in loggedOut
    /\ last.status = 401

\* C11: every credential record of the store is keyed by the hash of a user
\* identifier, never by the identifier itself, and its value is a Fernet
\* ciphertext, never the serialized credential.
C11_KeysHashedValuesEncrypted ==
    \A k \in DOMAIN redisCreds :
        redisCreds[k] # Null =>
            /\ k \notin Users
            /\ \E u \in Users : k = hash_user_id(u)
            /\ DOMAIN redisCreds[k].value = {"fernet", "data"}

C11_Witness ==
    /\ last.op = "callback"
    /\ last.status = 200
    /\ redis_has(redisCreds, hash_user_id(last.user))
    /\ redis_get(redisCreds, hash_user_id(last.user)) =
           encrypt_data(json_dumps(creds_data(putCred[last.user].credentials)))

\* C12: a request that finds no credential record for its user (never stored,
\* or TTL elapsed) is answered as authentication required, and no refresh and
\* no Google API call is made for it.
C12_AbsentCredentialIsAuthenticationRequired ==
    (last.op \in Requests /\ last.found = "absent") =>
        /\ AuthenticationRequired(last)
        /\ ~last.sent
        /\ last.built = "no"
        /\ last.refreshCalls = 0

C12_Witness ==
    /\ last.op \in {"user_info", "create_calendar_event"}
    /\ last.found = "absent"
    /\ last.user = "u1"
    /\ last.error = "User credentials not found"
    /\ now >= SESSION_DURATION

\* C13: a put for a user replaces that user's record entirely: the record
\* read back is the credential just put, whatever was stored before, and the
\* record of every other user is what it was.
C13_PutReplacesRecordOnly ==
    [][(last'.op = "put" /\ now' = now) =>
          /\ \A v \in Users \ {last'.user} :
                 redisCreds'[hash_user_id(v)] = redisCreds[hash_user_id(v)]
          /\ last'.error = "" =>
                 StoredAfter(redisCreds', last'.user) = putCred'[last'.user].credentials
          /\ last'.error # "" => redisCreds' = redisCreds]_vars

C13_Witness ==
    /\ last.op = "put"
    /\ last.error = ""
    /\ last.storedBefore # Null
    /\ last.storedBefore.refresh_token # None
    /\ last.storedAfter # Null
    /\ last.storedAfter.refresh_token = None
    /\ last.storedAfter = putCred[last.user].credentials
    /\ \E v \in Users \ {last.user} : redis_has(redisCreds, hash_user_id(v))

\* C14: a callback leaves every session that was live before it live and
\* resolving to the same user, also the earlier sessions of the user who
\* signs in again; every live token resolves to one user identifier.
C14_CallbackKeepsEarlierSessions ==
    /\ [](\A t \in SessionTokens :
            redis_has(redisSess, t) => get_session_user(redisSess, t, TRUE) \in Users)
    /\ [][(last'.op = "callback" /\ now' = now) =>
            \A t \in SessionTokens :
                redis_has(redisSess, t) =>
                    /\ redis_has(redisSess', t)
                    /\ redis_get(redisSess', t) = redis_get(redisSess, t)]_vars

C14_Witness ==
    /\ last.op = "callback"
    /\ last.status = 200
    /\ last.token = "t2"
    /\ ~last.storeRefused
    /\ \A t \in SessionTokens :
           redis_has(redisSess, t) /\ redis_get(redisSess, t) = last.user
    /\ StoredAfter(redisCreds, last.user) = putCred[last.user].credentials

C16_ExchangeIsOneShotAndSurfaced ==
    last.op = "callback" =>
        /\ last.exchangeCalls <= 1
        /\ last.upstream # "" =>
               /\ last.status = 400
               /\ last.exchangeCalls = 1
               /\ last.error = last.upstream

\* C17: an authenticated POST /api/calendar/create with a non-empty body, for
\* a user whose credential was read, is answered 201 or 400; it does not end
\* in the 500 handler when no external call has raised.
C17_CreateAnswers201Or400 ==
    (/\ last.op = "create_calendar_event"
     /\ last.got # Null
     /\ last.refreshCalls = 0 /\ ~last.sent)
    => last.status \in {201, 400}

McpTools == {"tool", "update_calendar_event"}

\* C18: a tool call raises the credentials-unavailable error, with no refresh
\* and no Google API request, whenever the lifespan credentials are absent or
\* not valid at the call; a Google API request goes out only for credentials
\* that are present and valid at the call.
C18_ToolsNeedValidCredentials ==
    last.op \in McpTools =>
        /\ last.found # "valid" =>
               /\ last.error = CREDS_UNAVAILABLE
               /\ ~last.sent
               /\ last.built = "no"
               /\ last.refreshCalls = 0
        /\ last.sent => (last.found = "valid" /\ last.built = "valid")

C18_Witness ==
    /\ last.op \in McpTools
    /\ last.found = "expired_refreshable"
    /\ lifespan # Null
    /\ lifespan.creds # Null
    /\ last.error = CREDS_UNAVAILABLE
    /\ ~last.sent

\* key k is in both dicts with one value, or in neither
SameItem(b, f, k) ==
    /\ k \in DOMAIN b <=> k \in DOMAIN f
    /\ k \in DOMAIN f => b[k] = f[k]

\* C19: the body update_calendar_event sends carries, for summary,
\* description, start time and end time, the provided value where one was
\* provided and the fetched event's value where none was; every other
\* attribute of the fetched event goes back unchanged; nothing is sent when
\* the event could not be fetched.
C19_UpdateChangesOnlyProvidedFields ==
    last.op = "update_calendar_event" =>
        /\ last.fetched = Null => last.body = Null
        /\ last.body # Null =>
            LET b == last.body
                f == last.fetched
                u == last.update
            IN  /\ IF "summary" \in DOMAIN u
                      THEN "summary" \in DOMAIN b /\ b.summary = u.summary
                      ELSE SameItem(b, f, "summary")
                /\ IF "description" \in DOMAIN u
                      THEN "description" \in DOMAIN b /\ b.description = u.description
                      ELSE SameItem(b, f, "description")
                /\ IF "start_time" \in DOMAIN u
                      THEN "dateTime" \in DOMAIN b.start /\ b.start.dateTime = u.start_time
                      ELSE SameItem(b.start, f.start, "dateTime")
                /\ IF "end_time" \in DOMAIN u
                      THEN "dateTime" \in DOMAIN b.end /\ b.end.dateTime = u.end_time
                      ELSE SameItem(b.end, f.end, "dateTime")
                /\ \A k \in (DOMAIN f \cup DOMAIN b)
                             \ {"summary", "description", "start", "end"} :
                       SameItem(b, f, k)
                /\ \A k \in (DOMAIN f.start \cup DOMAIN b.start) \ {"dateTime"} :
                       SameItem(b.start, f.start, k)
                /\ \A k \in (DOMAIN f.end \cup DOMAIN b.end) \ {"dateTime"} :
                       SameItem(b.end, f.end, k)

C19_Witness ==
    /\ last.op = "update_calendar_event"
    /\ last.error = ""
    /\ DOMAIN last.update = {"summary", "end_time"}
    /\ last.fetched = Calendar["e1"]
    /\ last.body.summary = "new"
    /\ last.body.end = [dateTime |-> "new", timeZone |-> "UTC"]
    /\ last.body.start = Calendar["e1"].start
    /\ last.body.location = "room 1"
    /\ last.body.description = "daily"

\* C20: when a callback answers success with a session_token, that token
\* resolves to the user_id of the answer in the session store.
C20_IssuedTokenResolves ==
    [][(last'.op = "callback" /\ last'.status = 200 /\ now' = now) =>
          get_session_user(redisSess', last'.token, TRUE) = last'.user]_vars

C22_SessionImpliesCredentialRecord ==
    \A t \in SessionTokens :
        redis_has(redisSess, t) =>
            redis_has(redisCreds, hash_user_id(redis_get(redisSess, t)))

====
